---- MODULE Spec2Model ----
(***************************************************************************)
(* Model of manual/tools/parse_doxygen_xml.py: the LatexGenerator that     *)
(* turns doxygen XML into the LaTeX of the seL4 manual.                    *)
(*                                                                         *)
(* A Python string is a sequence of atoms.  An atom is a TLA+ string: one  *)
(* character where the code looks at characters ("_", " ", "\\"), one      *)
(* whole word or LaTeX literal where it does not.  String concatenation is *)
(* \o.  A call that may raise returns a record [err, val]: err = "none"    *)
(* and the value, or the name of the exception and an empty value.         *)
(***************************************************************************)
EXTENDS Naturals, Sequences, FiniteSets, TLC

VARIABLES
    pc,        \* position of the run: which call is next, "done" or "failed"
    soup,      \* the parsed document (generate_general_syscall_doc)
    member,    \* the memberdef handed to a Generator method
    para,      \* the node handed to parse_para
    ref_dict,  \* the reference table
    idx,       \* number of members already handled by the running loop
    output,    \* generate_general_syscall_doc's accumulator
    arg_level, \* the section level given with --level
    result     \* what the call returned: [err, val]

vars == <<pc, soup, member, para, ref_dict, idx, output, arg_level, result>>

----------------------------------------------------------------------------
(* Results and exceptions *)

Ok(v) == [err |-> "none", val |-> v]

Raise(e) == [err |-> e, val |-> <<>>]

\* a KeyError carries the key that was not found
RaiseKey(k) == [err |-> "KeyError", val |-> k]

NoResult == [err |-> "pending", val |-> <<>>]

----------------------------------------------------------------------------
(* Nodes of the parsed tree (bs4 Tag / NavigableString) *)

\* the .name of a NavigableString
None == "None"

NoAttrs == [a \in {} |-> <<>>]

TextNode(s) == [name |-> None, string |-> s, attrs |-> NoAttrs, contents |-> <<>>]

Tag(n, a, c) == [name |-> n, string |-> <<>>, attrs |-> a, contents |-> c]

\* the node that find() did not find
Missing == [name |-> "<missing>", string |-> <<>>, attrs |-> NoAttrs, contents |-> <<>>]

----------------------------------------------------------------------------
(* Text *)

\* LatexGenerator.ESCAPE_PATTERNS: "_" becomes backslash, underscore
ESCAPE_PATTERNS == [c \in {"_"} |-> <<"\\", "_">>]

RECURSIVE text_escape(_)
text_escape(string) ==
    IF string = <<>> THEN <<>>
    ELSE (IF Head(string) \in DOMAIN ESCAPE_PATTERNS
            THEN ESCAPE_PATTERNS[Head(string)]
            ELSE <<Head(string)>>) \o text_escape(Tail(string))

\* bs4 Tag.get_text(): the text of every string below the node, in order
RECURSIVE AllText(_)
RECURSIVE AllTextOf(_)
AllText(node) ==
    IF node.name = None THEN node.string ELSE AllTextOf(node.contents)
AllTextOf(nodes) ==
    IF nodes = <<>> THEN <<>> ELSE AllText(Head(nodes)) \o AllTextOf(Tail(nodes))

\* soup.string is the only string below the node when there is exactly one,
\* and soup.get_text() is taken otherwise: both are AllText
\* the escape flag ignored
get_text_Raw(s, escape) == AllText(s)

get_text(s, escape) ==
    IF escape THEN text_escape(AllText(s)) ELSE AllText(s)

\* str.strip()
IsSpace(a) == a \in {" ", "\n"}

RECURSIVE LStrip(_)
LStrip(s) == IF s # <<>> /\ IsSpace(Head(s)) THEN LStrip(Tail(s)) ELSE s

RECURSIVE RStrip(_)
RStrip(s) ==
    IF s # <<>> /\ IsSpace(s[Len(s)]) THEN RStrip(SubSeq(s, 1, Len(s) - 1)) ELSE s

Strip(s) == LStrip(RStrip(s))

\* str.split()[-1]: the last whitespace-delimited component; IndexError when
\* the string holds no component
RECURSIVE LastWord(_)
LastWord(s) ==
    IF s = <<>> \/ IsSpace(s[Len(s)]) THEN <<>>
    ELSE LastWord(SubSeq(s, 1, Len(s) - 1)) \o <<s[Len(s)]>>

SplitLast(s) ==
    IF RStrip(s) = <<>> THEN Raise("IndexError") ELSE Ok(LastWord(RStrip(s)))

----------------------------------------------------------------------------
(* Reference by id or by name *)

\* a lookup that gives up quietly on a key it does not hold
ref_format_Quiet(refid, rd) ==
    IF refid \in DOMAIN rd
      THEN Ok(<<"\\apifunc{">> \o rd[refid].name \o <<"}{">> \o rd[refid].label \o <<"}">>)
      ELSE Ok(<<>>)

ref_format(refid, rd) ==
    IF refid \in DOMAIN rd
      THEN Ok(<<"\\apifunc{">> \o rd[refid].name \o <<"}{">> \o rd[refid].label \o <<"}">>)
      ELSE RaiseKey(refid)

\* tag[a]
Attr(p, a) == IF a \in DOMAIN p.attrs THEN Ok(p.attrs[a]) ELSE RaiseKey(<<a>>)

ref_to_format(p, rd) ==
    IF DOMAIN rd # {}
      THEN (IF Attr(p, "refid").err = "none"
              THEN ref_format(p.attrs["refid"], rd) ELSE Attr(p, "refid"))
      ELSE Ok(<<>>)

nref_to_format(p, rd) ==
    IF DOMAIN rd # {}
      THEN (IF Attr(p, "name").err = "none"
              THEN ref_format(p.attrs["name"], rd) ELSE Attr(p, "name"))
      ELSE Ok(<<>>)

----------------------------------------------------------------------------
(* The node translator *)

\* tag.para: the first <para> below the node in document order
RECURSIVE FirstPara(_)
FirstPara(nodes) ==
    IF nodes = <<>> THEN Missing
    ELSE IF Head(nodes).name = "para" THEN Head(nodes)
    ELSE IF FirstPara(Head(nodes).contents) # Missing
      THEN FirstPara(Head(nodes).contents)
    ELSE FirstPara(Tail(nodes))

\* "prefix%ssuffix" % an attribute of the node
AttrFormat(p, a, prefix, suffix) ==
    IF Attr(p, a).err = "none"
      THEN Ok(prefix \o p.attrs[a] \o suffix) ELSE Attr(p, a)

Wrap(prefix, r, suffix) ==
    IF r.err = "none" THEN Ok(prefix \o r.val \o suffix) ELSE r

\* the tag names of LatexGenerator.get_parse_table()
ParseTableKeys ==
    {"para", "computeroutput", "texttt", "ref", "nameref", "shortref", "obj",
     "errorenumdesc", "orderedlist", "listitem", "itemizedlist", "autoref"}

RECURSIVE parse_para(_, _)
RECURSIVE parse_recurse(_, _)
\* the loop "for item in contents: output += self.parse_para(item, ref_dict)"
parse_recurse(contents, rd) ==
    IF contents = <<>> THEN Ok(<<>>)
    ELSE LET h == parse_para(Head(contents), rd) IN
         IF h.err # "none" THEN h
         ELSE Wrap(h.val, parse_recurse(Tail(contents), rd), <<>>)

parse_list(p, rd, tag) ==
    Wrap(<<"\\begin{", tag, "}\n">>, parse_recurse(p.contents, rd), <<"\\end{", tag, "}\n">>)

parse_para(para_node, rd) ==
    IF para_node = Missing THEN Raise("AttributeError")
    ELSE IF para_node.name = None THEN Ok(get_text(para_node, TRUE))
    ELSE IF para_node.name \notin ParseTableKeys THEN Ok(<<>>)
    ELSE CASE para_node.name = "para" -> parse_recurse(para_node.contents, rd)
           [] para_node.name = "computeroutput" ->
                Ok(<<"\\texttt{">> \o get_text(para_node, TRUE) \o <<"}">>)
           [] para_node.name = "texttt" ->
                IF Attr(para_node, "text").err = "none"
                  THEN Ok(<<"\\texttt{">> \o text_escape(para_node.attrs["text"]) \o <<"}">>)
                  ELSE Attr(para_node, "text")
           [] para_node.name = "ref" -> ref_to_format(para_node, rd)
           [] para_node.name = "nameref" -> nref_to_format(para_node, rd)
           [] para_node.name = "shortref" ->
                AttrFormat(para_node, "sec", <<"\\ref{sec:">>, <<"}">>)
           [] para_node.name = "obj" ->
                AttrFormat(para_node, "name", <<"\\obj{">>, <<"}">>)
           [] para_node.name = "errorenumdesc" -> Ok(<<"\\errorenumdesc">>)
           [] para_node.name = "orderedlist" -> parse_list(para_node, rd, "enumerate")
           [] para_node.name = "itemizedlist" -> parse_list(para_node, rd, "itemize")
           [] para_node.name = "listitem" ->
                Wrap(<<"\\item ">>, parse_para(FirstPara(para_node.contents), rd), <<"\n">>)
           [] para_node.name = "autoref" ->
                AttrFormat(para_node, "label", <<"\\autoref{">>, <<"}">>)

----------------------------------------------------------------------------
(* Members.  A memberdef is held as what the code's find()/find_all() calls *)
(* return from it: the texts of its <type> and <declname> tags in document  *)
(* order, its <parameteritem>s, its top-level <para>s, its <simplesect>s.   *)

todo_if_empty(s) == IF s # <<>> THEN s ELSE <<"\\todo">>

default_return_doc(ret_type) ==
    IF ret_type = <<"void">> THEN <<"\\noret">> ELSE <<>>

generate_empty_param_string == <<"\\param{void}{}{}">>

\* param_info is the dict params[param_name]: its "type" and, when a
\* parameteritem set it, its "desc" (param_info.get("desc", "") otherwise)
generate_param_string(param_info, param_name) ==
    <<"\\param{">> \o text_escape(param_info.type) \o <<"}{">> \o text_escape(param_name)
        \o <<"}{">> \o todo_if_empty(Strip(param_info.desc)) \o <<"}\n">>

\* "for n in names": one type is drawn per declared name; a "void" type is
\* skipped, any other (re)binds params[name] and appends to param_order.
\* st = [params, param_order, exc]; i is the position of the name
RECURSIVE DeclLoop(_, _, _, _)
DeclLoop(types, names, i, st) ==
    IF i > Len(names) THEN st
    ELSE IF i + 1 > Len(types) THEN [st EXCEPT !.exc = Raise("StopIteration")]
    ELSE IF types[i + 1] = <<"void">> THEN DeclLoop(types, names, i + 1, st)
    ELSE DeclLoop(types, names, i + 1,
           [st EXCEPT !.params = [n \in DOMAIN st.params \cup {names[i]} |->
                                     IF n = names[i]
                                       THEN [type |-> types[i + 1], desc |-> <<>>]
                                       ELSE st.params[n]],
                      !.param_order = Append(st.param_order, names[i])])

\* "for param_item in param_items": the description is rendered first, then
\* stored under params[param_name], a KeyError when the name is no key
\* a parameteritem whose name is no key of params is passed over
RECURSIVE ItemLoop_Skip(_, _, _)
ItemLoop_Skip(items, rd, st) ==
    IF items = <<>> \/ st.exc.err # "none" THEN st
    ELSE LET item == Head(items)
             param_desc == parse_para(item.desc, rd)
         IN IF param_desc.err # "none" THEN [st EXCEPT !.exc = param_desc]
            ELSE IF item.name \notin DOMAIN st.params THEN ItemLoop_Skip(Tail(items), rd, st)
            ELSE ItemLoop_Skip(Tail(items), rd,
                   [st EXCEPT !.params[item.name].desc = param_desc.val])

RECURSIVE ItemLoop(_, _, _)
ItemLoop(items, rd, st) ==
    IF items = <<>> \/ st.exc.err # "none" THEN st
    ELSE LET item == Head(items)
             param_desc == parse_para(item.desc, rd)
         IN IF param_desc.err # "none" THEN [st EXCEPT !.exc = param_desc]
            ELSE IF item.name \notin DOMAIN st.params
              THEN [st EXCEPT !.exc = RaiseKey(item.name)]
            ELSE ItemLoop(Tail(items), rd,
                   [st EXCEPT !.params[item.name].desc = param_desc.val])

RECURSIVE ParamsLoop(_, _)
ParamsLoop(param_order, params) ==
    IF param_order = <<>> THEN <<>>
    ELSE generate_param_string(params[Head(param_order)], Head(param_order))
           \o ParamsLoop(Tail(param_order), params)

\* "for n in detaileddescription.find_all('para', recursive=False)"
RECURSIVE DetailsLoop(_, _)
DetailsLoop(paras, rd) ==
    IF paras = <<>> THEN Ok(<<>>)
    ELSE IF Head(paras).parameterlist THEN DetailsLoop(Tail(paras), rd)
    ELSE LET h == parse_para(Head(paras).node, rd) IN
         IF h.err # "none" THEN h
         ELSE Wrap(h.val \o <<"\n", "\n">>, DetailsLoop(Tail(paras), rd), <<>>)

\* "for n in simplesects": the first one of kind "return" sets ret; break
\* the loop without its break: the last "return" section sets ret
RECURSIVE ReturnLoop_NoBreak(_, _, _)
ReturnLoop_NoBreak(simplesects, rd, ret) ==
    IF simplesects = <<>> THEN Ok(ret)
    ELSE IF Head(simplesects).kind = "return"
      THEN LET r == parse_para(Head(simplesects).para, rd) IN
           IF r.err # "none" THEN r ELSE ReturnLoop_NoBreak(Tail(simplesects), rd, r.val)
    ELSE ReturnLoop_NoBreak(Tail(simplesects), rd, ret)

RECURSIVE ReturnLoop(_, _, _)
ReturnLoop(simplesects, rd, ret) ==
    IF simplesects = <<>> THEN Ok(ret)
    ELSE IF Head(simplesects).kind = "return" THEN parse_para(Head(simplesects).para, rd)
    ELSE ReturnLoop(Tail(simplesects), rd, ret)

\* returns Ok([details, params, ret]) or the exception raised first
parse_detailed_desc(parent, rd) ==
    IF parent.types = <<>> THEN Raise("StopIteration")
    ELSE
    LET st0 == [params |-> [n \in {} |-> <<>>], param_order |-> <<>>, exc |-> Ok(<<>>)]
        st1 == DeclLoop(parent.types, parent.declnames, 1, st0)
        st2 == ItemLoop(parent.paramitems, rd, st1)
        params_str == IF DOMAIN st2.params = {} THEN generate_empty_param_string
                      ELSE ParamsLoop(st2.param_order, st2.params)
        details == DetailsLoop(parent.detailed, rd)
        last == SplitLast(parent.types[1])
        ret == ReturnLoop(parent.simplesects, rd, default_return_doc(last.val))
    IN IF st1.exc.err # "none" THEN st1.exc
       ELSE IF st2.exc.err # "none" THEN st2.exc
       ELSE IF details.err # "none" THEN details
       ELSE IF last.err # "none" THEN last
       ELSE IF ret.err # "none" THEN ret
       ELSE Ok([details |-> todo_if_empty(Strip(details.val)),
                params |-> params_str,
                ret |-> todo_if_empty(Strip(ret.val))])

\* the two prefixes applied in the other order
parse_prototype_InlineLast(parent) ==
    IF parent.types = <<>> THEN Raise("AttributeError")
    ELSE
    LET out0 == text_escape(parent.types[1]) \o <<" ">> \o text_escape(parent.name)
        out1 == IF parent.static = "yes" THEN <<"static", " ">> \o out0 ELSE out0
        out2 == IF parent.inline = "yes" THEN <<"inline", " ">> \o out1 ELSE out1
    IN Ok(out2)

parse_prototype(parent) ==
    IF parent.types = <<>> THEN Raise("AttributeError")
    ELSE
    LET inline == parent.inline = "yes"
        static == parent.static = "yes"
        ret_type == text_escape(parent.types[1])
        name == text_escape(parent.name)
        out0 == ret_type \o <<" ">> \o name
        out1 == IF inline THEN <<"inline", " ">> \o out0 ELSE out0
        out2 == IF static THEN <<"static", " ">> \o out1 ELSE out1
    IN Ok(out2)

----------------------------------------------------------------------------
(* The reference table *)

\* one pass of "for member in soup.find_all('memberdef')": data is stored
\* under ret[ref_id] and under ret[name]
\* a name already in the table keeps its first descriptor
RefInsert_FirstWins(ret, m) ==
    LET data == [name |-> text_escape(m.name), label |-> m.label, ref |-> m.id]
    IN [k \in DOMAIN ret \cup {m.id, m.name} |->
          IF k \in DOMAIN ret THEN ret[k] ELSE data]

\* the descriptor stored under the name refers to the name, not to the id
RefInsert_NameAsRef(ret, m) ==
    LET data == [name |-> text_escape(m.name), label |-> m.label, ref |-> m.id]
    IN [k \in DOMAIN ret \cup {m.id, m.name} |->
          IF k = m.name THEN [data EXCEPT !.ref = m.name]
          ELSE IF k = m.id THEN data ELSE ret[k]]

RefInsert(ret, m) ==
    LET data == [name |-> text_escape(m.name), label |-> m.label, ref |-> m.id]
    IN [k \in DOMAIN ret \cup {m.id, m.name} |->
          IF k \in {m.id, m.name} THEN data ELSE ret[k]]

EmptyDict == [k \in {} |-> <<>>]

RECURSIVE RefFold(_, _)
RefFold(ret, members) ==
    IF members = <<>> THEN ret ELSE RefFold(RefInsert(ret, Head(members)), Tail(members))

build_ref_dict(s) == RefFold(EmptyDict, s.members)

----------------------------------------------------------------------------
(* One member's block *)

\* find_all('para'): every <para> below, in document order
RECURSIVE AllParas(_)
AllParas(nodes) ==
    IF nodes = <<>> THEN <<>>
    ELSE (IF Head(nodes).name = "para" THEN <<Head(nodes)>> ELSE <<>>)
           \o AllParas(Head(nodes).contents) \o AllParas(Tail(nodes))

\* "\n\n".join([self.parse_para(n) for n in para_nodes]), ref_dict defaulted
RECURSIVE BriefJoin(_)
BriefJoin(paras) ==
    IF paras = <<>> THEN Ok(<<>>)
    ELSE LET h == parse_para(Head(paras), EmptyDict) IN
         IF h.err # "none" THEN h
         ELSE IF Tail(paras) = <<>> THEN h
         ELSE Wrap(h.val \o <<"\n", "\n">>, BriefJoin(Tail(paras)), <<>>)

parse_brief(parent) == BriefJoin(AllParas(parent.brief))

generate_api_doc(level, m, params, ret, details) ==
    LET brief == parse_brief(m)
        prototype == parse_prototype(m)
    IN IF brief.err # "none" THEN brief
       ELSE IF prototype.err # "none" THEN prototype
       ELSE Ok(<<"\n\\apidoc\n[{", level, "}]\n{">> \o m.label
               \o <<"}\n{">> \o text_escape(m.manual_name)
               \o <<"}\n{">> \o todo_if_empty(brief.val)
               \o <<"}\n{">> \o prototype.val
               \o <<"}\n{">> \o params
               \o <<"}\n{">> \o ret
               \o <<"}\n{">> \o details
               \o <<"}\n        ">>)

\* the body of "for member in elements" in generate_general_syscall_doc
MemberBlock(level, m, rd) ==
    LET d == parse_detailed_desc(m, rd) IN
    IF d.err # "none" THEN d
    ELSE generate_api_doc(level, m, d.val.params, d.val.ret, d.val.details)

\* "for ddesc in summary.find_all('detaileddescription', recursive=False):
\*     if ddesc.para: output += generator.parse_para(ddesc.para)"
RECURSIVE TopLevel(_)
TopLevel(ddescs) ==
    IF ddescs = <<>> THEN Ok(<<>>)
    ELSE LET p == FirstPara(Head(ddescs)) IN
         IF p = Missing THEN TopLevel(Tail(ddescs))
         ELSE LET h == parse_para(p, EmptyDict) IN
              IF h.err # "none" THEN h
              ELSE Wrap(h.val, TopLevel(Tail(ddescs)), <<>>)

NoMethods == <<"No methods.">>

----------------------------------------------------------------------------
(* Bounds and the inputs drawn within them *)

MaxChildren == 3    \* children of a paragraph
MaxParams == 2      \* declared names of a member
MaxItems == 2       \* parameteritems of a member
MaxSects == 2       \* simplesects of a member
MaxMembers == 3     \* members scanned by build_ref_dict
MaxDocMembers == 2  \* members of an assembled document
MaxDdescs == 2      \* top-level detaileddescriptions of a document

SeqsUpTo(S, n) == UNION {[1..k -> S] : k \in 0..n}

Para(c) == Tag("para", NoAttrs, c)
Code(t) == Tag("computeroutput", NoAttrs, <<TextNode(t)>>)
Ref(id) == Tag("ref", [a \in {"refid"} |-> id], <<TextNode(<<"r">>)>>)
NameRef(n) == Tag("nameref", [a \in {"name"} |-> n], <<>>)
Bold(t) == Tag("bold", NoAttrs, <<TextNode(t)>>)

Digit == <<"1", "2", "3", "4", "5", "6">>
IdOf(i) == <<"id", Digit[i]>>

FuncNames == {<<"f">>, <<"g">>, <<"seL4", "_", "Send">>}
Labels == {<<"l1">>, <<"l2">>}

\* a member with nothing in it; the families below fill in what they vary
BaseMember ==
    [id |-> IdOf(1), name |-> <<"f">>, label |-> <<"l1">>, manual_name |-> <<"F">>,
     inline |-> "no", static |-> "no", types |-> <<<<"int">>>>, declnames |-> <<>>,
     paramitems |-> <<>>, detailed |-> <<>>, simplesects |-> <<>>, brief |-> <<>>]

NoSoup == [ddescs |-> <<>>, members |-> <<>>]

\* a table as build_ref_dict makes it, of one member
OneDict == RefInsert(EmptyDict, [BaseMember EXCEPT !.name = <<"seL4", "_", "Send">>])

(* parse_para *)
Children ==
    {TextNode(<<"a", "_", "b">>), TextNode(<<" ">>), Code(<<"c", "_">>), Bold(<<"b">>),
     Ref(IdOf(1)), Ref(IdOf(2)), NameRef(<<"seL4", "_", "Send">>),
     Para(<<TextNode(<<"a">>), Bold(<<"b">>)>>), Para(<<Code(<<"c", "_">>)>>),
     Tag("itemizedlist", NoAttrs, <<Tag("listitem", NoAttrs, <<Para(<<TextNode(<<"a">>)>>)>>)>>)}

Others ==
    {Tag("ref", NoAttrs, <<>>), NameRef(<<"g">>), Tag("simplesect", NoAttrs, <<>>),
     Tag("obj", [a \in {"name"} |-> <<"o">>], <<>>), Tag("errorenumdesc", NoAttrs, <<>>),
     Tag("listitem", NoAttrs, <<>>), Tag("shortref", NoAttrs, <<>>)}

ParaNodes == {Para(c) : c \in SeqsUpTo(Children, MaxChildren)} \cup Children \cup Others

(* parse_prototype *)
RetTypes ==
    {<<"void">>, <<"int">>, <<"const", " ", "void">>, <<"void", " ">>,
     <<"void", "_", "t">>, <<"void", " ", "*">>, <<>>, <<" ">>}

ProtoMembers ==
    {[BaseMember EXCEPT !.inline = i, !.static = s, !.types = t, !.name = n] :
        i \in {"yes", "no"}, s \in {"yes", "no"},
        t \in {<<r>> : r \in RetTypes} \cup {<<>>}, n \in FuncNames}

(* parse_detailed_desc *)
ParamNames == {<<"x">>, <<"y", "_">>}
ParamTypes == {<<"void">>, <<"int">>, <<"seL4", "_", "Word">>}
ItemNames == ParamNames \cup {<<"z">>}
Descs == {Para(<<TextNode(<<" ", "d">>)>>), Para(<<Ref(IdOf(2))>>)}
Items == {[name |-> n, desc |-> d] : n \in ItemNames, d \in Descs}
Sects ==
    {[kind |-> k, para |-> p] :
        k \in {"return", "note"},
        p \in {Para(<<TextNode(<<"r", " ">>)>>), Para(<<TextNode(<<"s">>)>>),
               Para(<<TextNode(<<" ">>)>>), Missing}}
Details ==
    {<<>>, <<[node |-> Para(<<TextNode(<<"t">>)>>), parameterlist |-> FALSE]>>,
     <<[node |-> Para(<<TextNode(<<"p">>)>>), parameterlist |-> TRUE],
       [node |-> Para(<<TextNode(<<"t">>), Ref(IdOf(2))>>), parameterlist |-> FALSE]>>}

\* declarations of any shape: the types need not match the names
DeclMembers ==
    {[BaseMember EXCEPT !.types = t, !.declnames = n] :
        t \in SeqsUpTo(ParamTypes, MaxParams + 1), n \in SeqsUpTo(ParamNames, MaxParams)}

\* documented parameters: one type for the return value and one per name
ItemMembers ==
    {[BaseMember EXCEPT !.types = <<<<"int">>>> \o [j \in DOMAIN d |-> d[j][2]],
                        !.declnames = [j \in DOMAIN d |-> d[j][1]],
                        !.paramitems = i] :
        d \in SeqsUpTo(ParamNames \X {<<"void">>, <<"int">>}, MaxParams),
        i \in SeqsUpTo(Items, MaxItems)}

\* return documentation
SectMembers ==
    {[BaseMember EXCEPT !.types = <<r>>, !.simplesects = s, !.detailed = d] :
        r \in RetTypes, s \in SeqsUpTo(Sects, MaxSects), d \in Details}

(* build_ref_dict: the i-th member of a document has the i-th id *)
RefMembers(k) ==
    {[i \in 1..k |-> [BaseMember EXCEPT !.id = IdOf(i), !.name = nl[i][1], !.label = nl[i][2]]] :
        nl \in [1..k -> FuncNames \X Labels]}

RefSoups == {[NoSoup EXCEPT !.members = ms] : ms \in UNION {RefMembers(k) : k \in 0..MaxMembers}}

(* generate_general_syscall_doc *)
Ddescs ==
    {<<>>, <<Para(<<TextNode(<<"a", "_">>)>>)>>,
     <<Para(<<TextNode(<<"a">>)>>), Para(<<TextNode(<<"b">>)>>)>>,
     <<Para(<<Ref(IdOf(1)), Code(<<"c">>)>>)>>}

\* void f(void), undocumented
MemberPlain == [BaseMember EXCEPT !.types = <<<<"void">>, <<"void">>>>, !.static = "yes"]

\* a documented call with one parameter, a reference and a return section
MemberDocumented ==
    [BaseMember EXCEPT
        !.name = <<"seL4", "_", "Send">>, !.manual_name = <<"Send">>, !.label = <<"l2">>,
        !.inline = "yes", !.static = "yes",
        !.types = <<<<"int">>, <<"seL4", "_", "Word">>>>, !.declnames = <<<<"x">>>>,
        !.paramitems = <<[name |-> <<"x">>, desc |-> Para(<<Ref(IdOf(1))>>)]>>,
        !.detailed = <<[node |-> Para(<<TextNode(<<"t">>)>>), parameterlist |-> FALSE]>>,
        !.simplesects = <<[kind |-> "return", para |-> Para(<<TextNode(<<"r">>)>>)]>>,
        !.brief = <<Para(<<TextNode(<<"b">>)>>)>>]

\* documents a parameter it does not declare
MemberBadItem ==
    [BaseMember EXCEPT !.name = <<"g">>,
        !.paramitems = <<[name |-> <<"z">>, desc |-> Para(<<TextNode(<<"d">>)>>)]>>]

MemberTemplates == {MemberPlain, MemberDocumented, MemberBadItem}

DocMembers(k) ==
    {[i \in 1..k |-> [t[i] EXCEPT !.id = IdOf(i)]] : t \in [1..k -> MemberTemplates]}

Soups ==
    {[ddescs |-> d, members |-> ms] :
        d \in SeqsUpTo(Ddescs, MaxDdescs),
        ms \in UNION {DocMembers(k) : k \in 0..MaxDocMembers}}

Levels == {"subsection", "subsubsection"}

----------------------------------------------------------------------------
(* generate_general_syscall_doc, step by step *)

Init ==
    /\ pc = "build_ref_dict"
    /\ soup \in Soups
    /\ arg_level \in Levels
    /\ member = BaseMember /\ para = Missing /\ ref_dict = EmptyDict
    /\ idx = 0 /\ output = <<>> /\ result = NoResult

\* ref_dict = generator.build_ref_dict(soup)
BuildRefDict ==
    /\ pc = "build_ref_dict"
    /\ ref_dict' = build_ref_dict(soup)
    /\ pc' = "top_level"
    /\ UNCHANGED <<soup, member, para, idx, output, arg_level, result>>

\* parse any top level descriptions
TopLevelDescriptions ==
    /\ pc = "top_level"
    /\ LET r == TopLevel(soup.ddescs) IN
       IF r.err = "none"
         THEN output' = output \o r.val /\ pc' = "elements" /\ UNCHANGED result
         ELSE result' = r /\ pc' = "failed" /\ UNCHANGED output
    /\ UNCHANGED <<soup, member, para, ref_dict, idx, arg_level>>

\* the sentinel appended to what was rendered so far
ReturnNoMethods_Appended ==
    /\ pc = "elements"
    /\ Len(soup.members) = 0
    /\ result' = Ok(output \o NoMethods)
    /\ pc' = "done"
    /\ UNCHANGED <<soup, member, para, ref_dict, idx, output, arg_level>>

\* if len(elements) == 0: return "No methods."
ReturnNoMethods ==
    /\ pc = "elements"
    /\ Len(soup.members) = 0
    /\ result' = Ok(NoMethods)
    /\ pc' = "done"
    /\ UNCHANGED <<soup, member, para, ref_dict, idx, output, arg_level>>

\* one pass of "for member in elements"
MemberStep ==
    /\ pc = "elements"
    /\ idx < Len(soup.members)
    /\ LET r == MemberBlock(arg_level, soup.members[idx + 1], ref_dict) IN
       IF r.err = "none"
         THEN output' = output \o r.val /\ idx' = idx + 1 /\ UNCHANGED <<pc, result>>
         ELSE result' = r /\ pc' = "failed" /\ UNCHANGED <<output, idx>>
    /\ UNCHANGED <<soup, member, para, ref_dict, arg_level>>

\* return output
ReturnOutput ==
    /\ pc = "elements"
    /\ Len(soup.members) > 0
    /\ idx = Len(soup.members)
    /\ result' = Ok(output)
    /\ pc' = "done"
    /\ UNCHANGED <<soup, member, para, ref_dict, idx, output, arg_level>>

Next == BuildRefDict \/ TopLevelDescriptions \/ ReturnNoMethods \/ MemberStep \/ ReturnOutput

Spec == Init /\ [][Next]_vars

----------------------------------------------------------------------------
(* build_ref_dict, one member at a time *)

InitRef ==
    /\ pc = "scan"
    /\ soup \in RefSoups
    /\ member = BaseMember /\ para = Missing /\ ref_dict = EmptyDict
    /\ idx = 0 /\ output = <<>> /\ arg_level = "subsection" /\ result = NoResult

ScanMember ==
    /\ pc = "scan"
    /\ idx < Len(soup.members)
    /\ ref_dict' = RefInsert(ref_dict, soup.members[idx + 1])
    /\ idx' = idx + 1
    /\ UNCHANGED <<pc, soup, member, para, output, arg_level, result>>

ReturnTable ==
    /\ pc = "scan"
    /\ idx = Len(soup.members)
    /\ pc' = "done"
    /\ UNCHANGED <<soup, member, para, ref_dict, idx, output, arg_level, result>>

NextRef == ScanMember \/ ReturnTable

SpecRef == InitRef /\ [][NextRef]_vars

----------------------------------------------------------------------------
(* parse_para on one node *)

InitPara ==
    /\ pc = "parse_para"
    /\ para \in ParaNodes
    /\ ref_dict \in {EmptyDict, OneDict}
    /\ soup = NoSoup /\ member = BaseMember
    /\ idx = 0 /\ output = <<>> /\ arg_level = "subsection" /\ result = NoResult

ParsePara ==
    /\ pc = "parse_para"
    /\ result' = parse_para(para, ref_dict)
    /\ pc' = IF result'.err = "none" THEN "done" ELSE "failed"
    /\ UNCHANGED <<soup, member, para, ref_dict, idx, output, arg_level>>

NextPara == ParsePara

SpecPara == InitPara /\ [][NextPara]_vars

----------------------------------------------------------------------------
(* parse_prototype on one member *)

InitProto ==
    /\ pc = "parse_prototype"
    /\ member \in ProtoMembers
    /\ soup = NoSoup /\ para = Missing /\ ref_dict = EmptyDict
    /\ idx = 0 /\ output = <<>> /\ arg_level = "subsection" /\ result = NoResult

ParsePrototype ==
    /\ pc = "parse_prototype"
    /\ result' = parse_prototype(member)
    /\ pc' = IF result'.err = "none" THEN "done" ELSE "failed"
    /\ UNCHANGED <<soup, member, para, ref_dict, idx, output, arg_level>>

NextProto == ParsePrototype

SpecProto == InitProto /\ [][NextProto]_vars

----------------------------------------------------------------------------
(* parse_detailed_desc on one member *)

InitDesc ==
    /\ pc = "parse_detailed_desc"
    /\ \/ member \in DeclMembers
       \/ member \in ItemMembers
       \/ member \in SectMembers
    /\ ref_dict \in {EmptyDict, OneDict}
    /\ soup = NoSoup /\ para = Missing
    /\ idx = 0 /\ output = <<>> /\ arg_level = "subsection" /\ result = NoResult

ParseDetailedDesc ==
    /\ pc = "parse_detailed_desc"
    /\ result' = parse_detailed_desc(member, ref_dict)
    /\ pc' = IF result'.err = "none" THEN "done" ELSE "failed"
    /\ UNCHANGED <<soup, member, para, ref_dict, idx, output, arg_level>>

NextDesc == ParseDetailedDesc

SpecDesc == InitDesc /\ [][NextDesc]_vars

----------------------------------------------------------------------------
(* Claims about parse_prototype, under SpecProto *)

FlagPrefix(flag, token) == IF flag = "yes" THEN <<token, " ">> ELSE <<>>

TypeAndName(m) == text_escape(m.types[1]) \o <<" ">> \o text_escape(m.name)

\* C1, as stated: the prototype is the (escaped) return type and name prefixed
\* by the tokens of the flags that are "yes", "inline" before "static".
C1_InlineBeforeStatic ==
    pc = "done" =>
        result.val = FlagPrefix(member.inline, "inline") \o FlagPrefix(member.static, "static")
                       \o TypeAndName(member)

\* C1, amended: the prototype is the (escaped) return type and name prefixed
\* by the tokens of the flags that are "yes", "static" before "inline"; with
\* one flag only that token is prefixed, with none no token is.
C1_StaticBeforeInline ==
    pc = "done" =>
        result.val = FlagPrefix(member.static, "static") \o FlagPrefix(member.inline, "inline")
                       \o TypeAndName(member)

\* a prototype was returned for a member with both flags "yes"
C1_Witness ==
    /\ pc = "done"
    /\ member.inline = "yes" /\ member.static = "yes"
    /\ SubSeq(result.val, 1, 4) = <<"static", " ", "inline", " ">>

----------------------------------------------------------------------------
(* Claims about parse_para, under SpecPara *)

IsRefNode(n) == n.name \in {"ref", "nameref"}

KeyAttr(n) == IF n.name = "ref" THEN "refid" ELSE "name"

HoldsKey(n, rd) == KeyAttr(n) \in DOMAIN n.attrs /\ n.attrs[KeyAttr(n)] \in DOMAIN rd

\* C8: a reference by id or by name renders as the empty string when the
\* table is empty, as the cross-reference built from the descriptor's name and
\* label when the table is non-empty and holds the node's key, and fails with
\* a KeyError, returning no string, when the table is non-empty without the key.
C8_Reference ==
    (pc \in {"done", "failed"} /\ IsRefNode(para)) =>
        IF DOMAIN ref_dict = {} THEN pc = "done" /\ result = Ok(<<>>)
        ELSE IF HoldsKey(para, ref_dict)
          THEN /\ pc = "done"
               /\ result = Ok(<<"\\apifunc{">> \o ref_dict[para.attrs[KeyAttr(para)]].name
                               \o <<"}{">> \o ref_dict[para.attrs[KeyAttr(para)]].label
                               \o <<"}">>)
          ELSE pc = "failed" /\ result.err = "KeyError"

\* a reference by name was resolved against a table that holds it
C8_Witness ==
    /\ pc = "done"
    /\ para.name = "nameref"
    /\ HoldsKey(para, ref_dict)
    /\ result.val = <<"\\apifunc{", "seL4", "\\", "_", "Send", "}{", "l1", "}">>

\* trees of text leaves, paragraphs, code spans over text and unknown kinds
RECURSIVE IsPlain(_)
IsPlain(n) ==
    \/ n.name = None
    \/ n.name = "computeroutput" /\ \A i \in DOMAIN n.contents : n.contents[i].name = None
    \/ n.name \notin ParseTableKeys \cup {None, Missing.name}
    \/ n.name = "para" /\ \A i \in DOMAIN n.contents : IsPlain(n.contents[i])

RECURSIVE Escaped(_)
Escaped(t) ==
    IF t = <<>> THEN <<>>
    ELSE (IF Head(t) = "_" THEN <<"\\", "_">> ELSE <<Head(t)>>) \o Escaped(Tail(t))

RECURSIVE LeafTexts(_)
LeafTexts(c) == IF c = <<>> THEN <<>> ELSE Head(c).string \o LeafTexts(Tail(c))

RECURSIVE Contribution(_)
RECURSIVE Contributions(_, _)
Contribution(n) ==
    IF n.name = None THEN Escaped(n.string)
    ELSE IF n.name = "computeroutput"
      THEN <<"\\texttt{">> \o Escaped(LeafTexts(n.contents)) \o <<"}">>
    ELSE IF n.name = "para" THEN Contributions(n.contents, 1)
    ELSE <<>>
Contributions(c, i) ==
    IF i > Len(c) THEN <<>> ELSE Contribution(c[i]) \o Contributions(c, i + 1)

\* C10: a paragraph renders as the concatenation, in child order, of what each
\* child renders as: a text leaf its escaped text, a code span its escaped
\* text in \texttt{}, a kind outside the dispatch table the empty string; and
\* rendering such a tree never fails.
C10_Paragraph ==
    (pc \in {"done", "failed"} /\ para.name = "para" /\ IsPlain(para)) =>
        pc = "done" /\ result = Ok(Contributions(para.contents, 1))

\* a paragraph of plain text, a code span and an unknown kind was rendered
C10_Witness ==
    /\ pc = "done"
    /\ para = Para(<<TextNode(<<"a", "_", "b">>), Code(<<"c", "_">>), Bold(<<"b">>)>>)
    /\ result.val = <<"a", "\\", "_", "b", "\\texttt{", "c", "\\", "_", "}">>

----------------------------------------------------------------------------
(* Claims about parse_detailed_desc, under SpecDesc *)

WellTyped(m) == Len(m.types) = Len(m.declnames) + 1

\* the entries of a parameter block as written: the text between "\param{"
\* and "}{" is an entry's type, the text up to the next "}{" its name; the
\* "no parameters" block holds no entry
RECURSIVE UpTo(_, _)
UpTo(t, stop) ==
    IF t = <<>> \/ Head(t) = stop THEN <<>> ELSE <<Head(t)>> \o UpTo(Tail(t), stop)

RECURSIVE ParamEntries(_)
ParamEntries(t) ==
    IF t = <<>> THEN <<>>
    ELSE IF Head(t) # "\\param{" THEN ParamEntries(Tail(t))
    ELSE LET type == UpTo(Tail(t), "}{")
             rest == SubSeq(t, Len(type) + 3, Len(t))
             name == UpTo(rest, "}{")
         IN <<[type |-> type, name |-> name]>> \o ParamEntries(rest)

\* the declarations whose type is not "void", each with its own type and name
RECURSIVE DeclaredEntries(_, _)
DeclaredEntries(m, i) ==
    IF i > Len(m.declnames) THEN <<>>
    ELSE (IF m.types[i + 1] = <<"void">> THEN <<>>
            ELSE <<[type |-> Escaped(m.types[i + 1]), name |-> Escaped(m.declnames[i])]>>)
           \o DeclaredEntries(m, i + 1)

\* C2, as stated: for a member with one more type than declared names, the
\* parameter block holds one entry per declared name whose type is not "void",
\* in declaration order, each with the type and name of its own position,
\* also when two declared names are equal.
C2_OwnTypeAndName ==
    (pc = "done" /\ WellTyped(member)) =>
        ParamEntries(result.val.params) = DeclaredEntries(member, 1)

DistinctNames(m) ==
    \A i, j \in DOMAIN m.declnames : m.declnames[i] = m.declnames[j] => i = j

\* C2 where it holds: the same, for members whose declared names differ
C2_DistinctNames ==
    (pc = "done" /\ WellTyped(member) /\ DistinctNames(member)) =>
        ParamEntries(result.val.params) = DeclaredEntries(member, 1)

HasReturn(m) == \E i \in DOMAIN m.simplesects : m.simplesects[i].kind = "return"

FirstReturn(m) ==
    m.simplesects[CHOOSE i \in DOMAIN m.simplesects :
                    /\ m.simplesects[i].kind = "return"
                    /\ \A j \in 1..(i - 1) : m.simplesects[j].kind # "return"]

\* the last whitespace-delimited component of the text is exactly "void"
EndsInVoid(t) ==
    \E k \in DOMAIN t :
        /\ t[k] = "void"
        /\ \A j \in (k + 1)..Len(t) : IsSpace(t[j])
        /\ k = 1 \/ IsSpace(t[k - 1])

ReturnContent(m, rd) ==
    IF HasReturn(m) THEN parse_para(FirstReturn(m).para, rd).val
    ELSE IF EndsInVoid(m.types[1]) THEN <<"\\noret">>
    ELSE <<>>

\* the text without its leading and trailing whitespace
Trimmed(t) ==
    LET solid == {i \in DOMAIN t : ~IsSpace(t[i])} IN
    IF solid = {} THEN <<>>
    ELSE SubSeq(t, CHOOSE i \in solid : \A j \in solid : i <= j,
                   CHOOSE i \in solid : \A j \in solid : j <= i)

OrTodo(t) == IF t = <<>> THEN <<"\\todo">> ELSE t

\* C3, as stated: returnDoc is the rendered content of the first "return"
\* section when there is one, else the "no return value" marker when the
\* return type's last component is "void", else empty; empty content is then
\* replaced by the to-do placeholder.
C3_RenderedContent ==
    pc = "done" => result.val.ret = OrTodo(ReturnContent(member, ref_dict))

\* C3, amended: the same content with its leading and trailing whitespace
\* removed before the to-do placeholder replaces empty content; no later
\* "return" section has any influence, and returnDoc is never empty.
C3_TrimmedContent ==
    pc = "done" =>
        /\ result.val.ret = OrTodo(Trimmed(ReturnContent(member, ref_dict)))
        /\ result.val.ret # <<>>

\* two "return" sections of different content, the first one returned
C3_Witness ==
    /\ pc = "done"
    /\ Len(member.simplesects) = 2
    /\ member.simplesects[1] = [kind |-> "return", para |-> Para(<<TextNode(<<"r", " ">>)>>)]
    /\ member.simplesects[2] = [kind |-> "return", para |-> Para(<<TextNode(<<"s">>)>>)]
    /\ result.val.ret = <<"r">>

Declared(m) == {m.declnames[i] : i \in DOMAIN m.declnames}

NonVoidDeclared(m) ==
    {m.declnames[i] : i \in {j \in DOMAIN m.declnames : m.types[j + 1] # <<"void">>}}

Documented(m) == {m.paramitems[i].name : i \in DOMAIN m.paramitems}

\* the call raised KeyError for the name of a parameteritem
FailsOnParam == pc = "failed" /\ result.err = "KeyError" /\ result.val \in Documented(member)

\* C9, as stated: the call fails with a KeyError when a parameteritem names a
\* parameter that is not a declared name, and does not fail on a parameter
\* name when every parameteritem names a declared name.
C9_DeclaredNames ==
    (pc \in {"done", "failed"} /\ WellTyped(member)) =>
        /\ ~(Documented(member) \subseteq Declared(member)) =>
              pc = "failed" /\ result.err = "KeyError"
        /\ Documented(member) \subseteq Declared(member) => ~FailsOnParam

\* C9, amended: the declared names that count are those whose paired type is
\* not "void"; a documented name declared only with type "void" fails the call
\* like an undeclared one.
C9_NonVoidDeclaredNames ==
    (pc \in {"done", "failed"} /\ WellTyped(member)) =>
        /\ ~(Documented(member) \subseteq NonVoidDeclared(member)) =>
              pc = "failed" /\ result.err = "KeyError"
        /\ Documented(member) \subseteq NonVoidDeclared(member) => ~FailsOnParam

\* a parameteritem names a parameter declared with type "void": KeyError
C9_Witness ==
    /\ FailsOnParam
    /\ WellTyped(member)
    /\ Documented(member) \subseteq Declared(member)
    /\ result.val \notin NonVoidDeclared(member)

----------------------------------------------------------------------------
(* Claims about build_ref_dict, under SpecRef.  The members of a document  *)
(* have distinct ids, and no id is a display name.                         *)

Members == soup.members

Descriptor(m) == [name |-> Escaped(m.name), label |-> m.label, ref |-> m.id]

NamesDistinct ==
    \A i, j \in DOMAIN Members : Members[i].name = Members[j].name => i = j

\* the last member of the document with the display name n
LastNamed(n) ==
    Members[CHOOSE i \in DOMAIN Members :
              /\ Members[i].name = n
              /\ \A j \in DOMAIN Members : Members[j].name = n => j <= i]

\* C4: the table of N members with pairwise distinct display names has exactly
\* 2N keys; with a shared display name it has fewer, the name key maps to the
\* descriptor of the later member, and every id key to its own member's.
C4_TableSize ==
    pc = "done" =>
        /\ NamesDistinct => Cardinality(DOMAIN ref_dict) = 2 * Len(Members)
        /\ ~NamesDistinct =>
             /\ Cardinality(DOMAIN ref_dict) < 2 * Len(Members)
             /\ \A i \in DOMAIN Members :
                  /\ ref_dict[Members[i].name] = Descriptor(LastNamed(Members[i].name))
                  /\ ref_dict[Members[i].id] = Descriptor(Members[i])

\* two members share a display name and differ in label: the name key holds
\* the later one's descriptor
C4_Witness ==
    /\ pc = "done"
    /\ Len(Members) >= 2
    /\ Members[1].name = Members[2].name /\ Members[1].label # Members[2].label
    /\ \A i \in DOMAIN Members : i > 2 => Members[i].name # Members[1].name
    /\ ref_dict[Members[1].name] = Descriptor(Members[2])

\* C5, as stated: for every member, the lookups by its id and by its display
\* name return the same descriptor, whose id is the member's id.
C5_SameDescriptor ==
    pc = "done" =>
        \A i \in DOMAIN Members :
            /\ ref_dict[Members[i].id] = ref_dict[Members[i].name]
            /\ ref_dict[Members[i].id].ref = Members[i].id

Shadowed(i) == \E j \in DOMAIN Members : j > i /\ Members[j].name = Members[i].name

\* C5, amended: for every member whose display name no later member shares,
\* the lookups by its id and by its display name return the same descriptor
\* {escaped display name, label, id}, whose id is the member's id; for a
\* member whose name a later member shares, the lookup by name returns the
\* descriptor of the last member of that name.
C5_SameDescriptorUnlessShadowed ==
    pc = "done" =>
        \A i \in DOMAIN Members :
            /\ ~Shadowed(i) =>
                 /\ ref_dict[Members[i].id] = ref_dict[Members[i].name]
                 /\ ref_dict[Members[i].name] = Descriptor(Members[i])
            /\ Shadowed(i) =>
                 /\ ref_dict[Members[i].name] # ref_dict[Members[i].id]
                 /\ ref_dict[Members[i].name].ref = LastNamed(Members[i].name).id
            /\ ref_dict[Members[i].id].ref = Members[i].id

\* a scanned document of members that no later member shadows, one of them
\* with a name that escaping changes
C5_Witness ==
    /\ pc = "done"
    /\ Len(Members) >= 2
    /\ NamesDistinct
    /\ \E i \in DOMAIN Members :
          /\ Members[i].name = <<"seL4", "_", "Send">>
          /\ ref_dict[Members[i].name].name = <<"seL4", "\\", "_", "Send">>
          /\ ref_dict[Members[i].name] = ref_dict[Members[i].id]

----------------------------------------------------------------------------
(* Claims about generate_general_syscall_doc, under Spec *)

\* C6: for a document without members the call returns exactly "No methods.",
\* whatever its top-level description holds; the call does not fail.
C6_NoMethods ==
    (pc \in {"done", "failed"} /\ Len(soup.members) = 0) =>
        pc = "done" /\ result = Ok(<<"No methods.">>)

\* a document without members whose top-level description rendered to text
C6_Witness ==
    /\ pc = "done"
    /\ Len(soup.members) = 0
    /\ output # <<>>
    /\ result.val = <<"No methods.">>

\* every <para> child of every top-level detaileddescription, rendered in order
RECURSIVE ParasRendered(_)
ParasRendered(nodes) ==
    IF nodes = <<>> THEN <<>>
    ELSE (IF Head(nodes).name = "para" THEN parse_para(Head(nodes), EmptyDict).val ELSE <<>>)
           \o ParasRendered(Tail(nodes))

RECURSIVE AllTopLevel(_)
AllTopLevel(ddescs) ==
    IF ddescs = <<>> THEN <<>> ELSE ParasRendered(Head(ddescs)) \o AllTopLevel(Tail(ddescs))

RECURSIVE Blocks(_, _)
Blocks(ms, i) ==
    IF i > Len(ms) THEN <<>>
    ELSE MemberBlock(arg_level, ms[i], ref_dict).val \o Blocks(ms, i + 1)

\* C7: the result is the rendering of every top-level description paragraph,
\* in order, followed by one block per member in document order.
C7_EveryParagraphThenBlocks ==
    (pc = "done" /\ Len(soup.members) > 0) =>
        result.val = AllTopLevel(soup.ddescs) \o Blocks(soup.members, 1)

\* C7 where it holds: the first paragraph of every top-level description,
\* then one block per member in document order
C7_FirstParagraphThenBlocks ==
    (pc = "done" /\ Len(soup.members) > 0) =>
        result.val = TopLevel(soup.ddescs).val \o Blocks(soup.members, 1)

====
